---- MODULE Spec2Model ----
(***************************************************************************)
(* Vibe-Eyes collector (mcp.js): the single retained capture, the          *)
(* debugCapture handler with its await on image processing, the plain      *)
(* readers (GET /latest, getLatestCapture) and the MCP tool; and the       *)
(* browser client (VectorizerClient): its capture loop and log buffers.    *)
(*                                                                         *)
(* Spec is the server with well-formed producers, SpecMalformed the server *)
(* with a producer that sends malformed messages, SpecStarve the server    *)
(* with hanging conversions and departing producers, SpecLoop the client's *)
(* capture loop, SpecLogs the client's log buffers, SpecErrors the client  *)
(* in a page whose scripts fail, SpecVectorizer the functions of           *)
(* vectorizer.js called on their own.                                      *)
(*                                                                         *)
(* JavaScript values are modelled as follows: an object is a record whose  *)
(* DOMAIN is the set of properties it has (a deleted or never assigned     *)
(* property is not in the DOMAIN), an array is a sequence, a string that   *)
(* the code builds is a sequence of parts, null is the record Null.        *)
(***************************************************************************)
EXTENDS Integers, Sequences, FiniteSets, TLC

VARIABLES
    now,                        \* Date.now(), the server's clock
    latestCapture,              \* mcp.js:28
    mcpRequestCount,            \* mcp.js:21
    mcpRequestWithoutSvgCount,  \* mcp.js:22
    handlers,                   \* debugCapture handler invocations, in arrival order
    vectorizing,                \* invocations whose vectorize() call is outstanding
    acks,                       \* history: the acknowledgment callbacks invoked, in order
    lastAck,                    \* the object passed to the most recent acknowledgment
    publishLog,                 \* history: invocations in the order they assigned latestCapture
    publisher,                  \* history: message, callback and arrival time of the latest publisher
    lastReply,                  \* the answer a reader got in the step just taken
    hung,                       \* invocations whose vectorize() call never settles
    gone,                       \* invocations whose socket has disconnected
    client,                     \* window.vectorizerClient and the browser around it
    call                        \* a call of a function of vectorizer.js: its arguments, then its result

vars == <<now, latestCapture, mcpRequestCount, mcpRequestWithoutSvgCount,
          handlers, vectorizing, acks, lastAck, publishLog, publisher, lastReply,
          hung, gone, client, call>>

serverVars == <<now, latestCapture, mcpRequestCount, mcpRequestWithoutSvgCount,
                handlers, vectorizing, acks, lastAck, publishLog, publisher,
                lastReply, hung, gone>>

----------------------------------------------------------------------------
(* Bounds of the exploration *)

MaxSubmissions == 2
MaxClock == 2
MaxMcpRequests == 2
MaxUnacked == 2
MaxOrphans == 1
MaxLimit == 2
MaxLogCalls == 3
MaxClientClock == 2

----------------------------------------------------------------------------
(* Values *)

Null == [null |-> TRUE]

Letters == {"p", "n", "g", "j", "e", "s", "v", "x", "m", "l"}

\* A data URL string, seen through the three places the pattern of
\* processDataUrl looks at: what precedes the type, the type (a sequence of
\* characters), the payload after ";base64," (a sequence of characters).
DataUrl(p, t, d) == [prefix |-> p, type |-> t, data |-> d]

EmptyString == DataUrl("", <<>>, <<>>)
PngA == DataUrl("data:image/", <<"p", "n", "g">>, <<"A", "A", "A", "A">>)
JpegB == DataUrl("data:image/", <<"j", "p", "e", "g">>, <<"B", "B", "B", "B">>)
SvgXml == DataUrl("data:image/", <<"s", "v", "g", "+", "x", "m", "l">>, <<"A", "A", "A", "A">>)
Corrupt == DataUrl("data:image/", <<"p", "n", "g">>, <<"!", "!", "!", "!">>)

LogHello == [timestamp |-> 4, data |-> <<"hello">>]
LogPos == [timestamp |-> 5, data |-> <<"Player", "position:">>]
ErrBoom == [timestamp |-> 5, data |-> <<"boom">>]
ExcSyntax == [timestamp |-> 5, message |-> "Unexpected token", type |-> "SyntaxError"]

\* The capture messages the producers send; a property a message does not
\* carry is not in its DOMAIN.
LogsOnlyMessage ==
    [timestamp |-> 7, console_logs |-> <<LogHello>>, console_errors |-> <<>>,
     unhandled_exception |-> Null]
PngMessage ==
    [timestamp |-> 8, image |-> PngA, console_logs |-> <<LogHello, LogPos>>,
     console_errors |-> <<ErrBoom>>, unhandled_exception |-> ExcSyntax]
JpegMessage ==
    [timestamp |-> 0, image |-> JpegB, console_logs |-> <<LogPos>>]
BadUrlMessage ==
    [timestamp |-> 9, image |-> SvgXml, console_logs |-> <<LogPos>>,
     console_errors |-> <<ErrBoom>>, unhandled_exception |-> ExcSyntax]
CorruptMessage ==
    [timestamp |-> 9, image |-> Corrupt, console_logs |-> <<LogHello>>,
     console_errors |-> <<ErrBoom, ErrBoom>>, unhandled_exception |-> Null]

Messages ==
    {LogsOnlyMessage, PngMessage, JpegMessage, BadUrlMessage, CorruptMessage}

\* A console_logs entry that is not of the shape {timestamp, data: [...]}:
\* it has no data property.
LogWithoutData == [timestamp |-> 4]

\* Messages the handler accepts although they are malformed: the handler
\* copies console_logs and console_errors without looking into them.
MalformedLogsMessage ==
    [timestamp |-> 7, console_logs |-> <<LogHello, LogWithoutData>>]
MalformedErrorsMessage ==
    [timestamp |-> 7, console_logs |-> <<LogHello>>,
     console_errors |-> <<LogWithoutData>>]

\* socket.emit('debugCapture', null, callback): the payload is null.
NullPayload == Null

\* The emits of a producer that does not follow the message format, next to
\* one that does.
MalformedEmits ==
    {<<NullPayload, TRUE>>, <<NullPayload, FALSE>>,
     <<MalformedLogsMessage, TRUE>>, <<MalformedErrorsMessage, TRUE>>,
     <<PngMessage, TRUE>>}

\* The emits of the producers: a message and whether an acknowledgment
\* callback comes with it.
Emits ==
    (Messages \X {TRUE}) \cup {<<LogsOnlyMessage, FALSE>>}

Has(obj, f) == f \in DOMAIN obj

----------------------------------------------------------------------------
(* vectorizer.js *)

SvgPart(tag, body) == [tag |-> tag, body |-> body]

\* Buffer.from(base64Data, 'base64'): characters outside the alphabet are
\* skipped, every four sextets give three bytes.
Sextet == [c \in {"A", "B"} |-> IF c = "A" THEN 0 ELSE 1]

RECURSIVE SextetsToBytes(_)
SextetsToBytes(s) ==
    IF Len(s) < 4 THEN <<>>
    ELSE LET n == ((Sextet[s[1]] * 64 + Sextet[s[2]]) * 64 + Sextet[s[3]]) * 64
                  + Sextet[s[4]]
         IN  <<n \div 65536, (n \div 256) % 256, n % 256>>
             \o SextetsToBytes(SubSeq(s, 5, Len(s)))

Base64Decode(d) ==
    LET InAlphabet(c) == c \in DOMAIN Sextet
    IN  SextetsToBytes(SelectSeq(d, InAlphabet))

\* vectorize() of @neplex/vectorizer: rejects a buffer that holds no image,
\* otherwise answers a document traced from the bytes.
VectorizeRejects(inputBuffer) == inputBuffer = <<>>

Vectorize(inputBuffer) ==
    << SvgPart("<?xml?>", <<>>), SvgPart("<svg>", <<>>), SvgPart("<!-- -->", <<>>),
       SvgPart("<path>", inputBuffer), SvgPart("</svg>", <<>>) >>

\* parseInt(hexPair, 16) on two hexadecimal digits of either case
UpperHex == <<"0", "1", "2", "3", "4", "5", "6", "7", "8", "9",
              "A", "B", "C", "D", "E", "F">>
LowerHex == <<"0", "1", "2", "3", "4", "5", "6", "7", "8", "9",
              "a", "b", "c", "d", "e", "f">>

HexChars == {UpperHex[k] : k \in 1..16} \cup {LowerHex[k] : k \in 1..16}

DigitValue(ch) ==
    CHOOSE v \in 0..15 : UpperHex[v + 1] = ch \/ LowerHex[v + 1] = ch

ParseInt16(hexPair) == DigitValue(hexPair[1]) * 16 + DigitValue(hexPair[2])

\* roundHexComponent with every threshold at the level itself (rounding down)
RoundHexComponentDown(hexPair) ==
    LET dec == ParseInt16(hexPair)
    IN  IF dec < 51 THEN <<"0", "0">>
        ELSE IF dec < 102 THEN <<"3", "3">>
        ELSE IF dec < 153 THEN <<"6", "6">>
        ELSE IF dec < 204 THEN <<"9", "9">>
        ELSE IF dec < 255 THEN <<"C", "C">>
        ELSE <<"F", "F">>

\* roundHexComponent(hexPair)
RoundHexComponent(hexPair) ==
    LET dec == ParseInt16(hexPair)
    IN  IF dec < 26 THEN <<"0", "0">>
        ELSE IF dec < 77 THEN <<"3", "3">>
        ELSE IF dec < 128 THEN <<"6", "6">>
        ELSE IF dec < 179 THEN <<"9", "9">>
        ELSE IF dec < 230 THEN <<"C", "C">>
        ELSE <<"F", "F">>

\* roundHexColors(svg): the pattern matches a '#' followed by exactly six
\* hexadecimal digits; a colour is the sequence of its digit pairs, held in
\* the fill of a part.
RoundHexColors(svg) ==
    [k \in 1..Len(svg) |->
        IF Has(svg[k], "fill") /\ Len(svg[k].fill) = 3
        THEN [svg[k] EXCEPT !.fill = [i \in 1..3 |-> RoundHexComponent(@[i])]]
        ELSE svg[k]]

\* optimize() of svgo as configured by getSvgoConfig: the processing
\* instruction and the comments are removed.
Optimize(svg) ==
    LET Kept(part) == part.tag \notin {"<?xml?>", "<!-- -->"}
    IN  SelectSeq(svg, Kept)

\* JavaScript numbers: a finite number is a ratio num / den with den > 0,
\* the others are NaN and the two infinities.
NaN == [nan |-> TRUE]
Infinity == [infinity |-> 1]
NegInfinity == [infinity |-> -1]

IsFinite(x) == Has(x, "num")

Number(n) == [num |-> n, den |-> 1]

\* x / y for x, y >= 0
Divide(x, y) ==
    IF ~IsFinite(x) \/ ~IsFinite(y) THEN NaN
    ELSE IF y.num = 0 THEN (IF x.num = 0 THEN NaN ELSE Infinity)
    ELSE [num |-> x.num * y.den, den |-> x.den * y.num]

\* x * y for y > 0
Times(x, y) ==
    IF x = NaN \/ y = NaN THEN NaN
    ELSE IF IsFinite(x) /\ IsFinite(y)
    THEN [num |-> x.num * y.num, den |-> x.den * y.den]
    ELSE IF (IsFinite(x) /\ x.num = 0) \/ (IsFinite(y) /\ y.num = 0) THEN NaN
    ELSE IF IsFinite(x) THEN y ELSE x

\* x - y for finite x
Minus(x, y) ==
    IF x = NaN \/ y = NaN THEN NaN
    ELSE IF IsFinite(y)
    THEN [num |-> x.num * y.den - y.num * x.den, den |-> x.den * y.den]
    ELSE IF y = Infinity THEN NegInfinity ELSE Infinity

RECURSIVE Gcd(_, _)
Gcd(a, b) == IF b = 0 THEN a ELSE Gcd(b, a % b)

Abs(n) == IF n < 0 THEN -n ELSE n

\* The one value a number has: a ratio is brought to lowest terms.
LowestTerms(x) ==
    LET Reduced(v) ==
            IF IsFinite(v)
            THEN [num |-> v.num \div Gcd(Abs(v.num), v.den),
                  den |-> v.den \div Gcd(Abs(v.num), v.den)]
            ELSE v
    IN  CHOOSE r \in {Reduced(v) : v \in {x}} : TRUE

\* stats.sizeReduction = 100 - (finalSvg.length / svg.length) * 100
SizeReduction(finalSize, originalSize) ==
    LowestTerms(
        Minus(Number(100),
              Times(Divide(Number(finalSize), Number(originalSize)), Number(100))))

\* vectorizeImage(inputBuffer, options) from the point where vectorize() has
\* answered the document svg.  optimizer says what optimize() of svgo does
\* on this call: whether it throws, and the time it takes when it does not.
\* stats.vectorizeTime is left out.
VectorizeImageOf(svg, options, optimizer) ==
    LET optimizes == ~(Has(options, "optimize") /\ options.optimize = FALSE)
        processedSvg == IF Has(options, "shortHex") /\ options.shortHex = FALSE
                        THEN svg ELSE RoundHexColors(svg)
        succeeds == optimizes /\ ~optimizer.throws
        finalSvg == IF succeeds THEN Optimize(processedSvg) ELSE svg
        Stats(finalSize, originalSize) ==
            [optimizeTime |-> IF succeeds THEN optimizer.elapsed ELSE 0,
             originalSize |-> originalSize,
             finalSize |-> finalSize,
             sizeReduction |-> SizeReduction(finalSize, originalSize)]
    IN  [svg |-> finalSvg,
         stats |-> CHOOSE stats \in {Stats(finalSize, originalSize) :
                                        finalSize \in {Len(finalSvg)},
                                        originalSize \in {Len(svg)}} : TRUE]

\* The options processDataUrl passes
ProcessDataUrlOptions == [filterSpeckle |-> 4, maxIterations |-> 30]

\* vectorizeImage as processDataUrl calls it, on an image the optimizer
\* handles in one unit of time.
VectorizeImage(inputBuffer) ==
    CHOOSE result \in {VectorizeImageOf(svg, ProcessDataUrlOptions,
                                        [throws |-> FALSE, elapsed |-> 1]) :
                          svg \in {Vectorize(inputBuffer)}} : TRUE

----------------------------------------------------------------------------
(* mcp.js: processDataUrl *)

\* /^data:image\/([a-zA-Z]+);base64,(.+)$/
Matches(dataUrl) ==
    /\ dataUrl.prefix = "data:image/"
    /\ Len(dataUrl.type) > 0
    /\ \A k \in 1..Len(dataUrl.type) : dataUrl.type[k] \in Letters
    /\ Len(dataUrl.data) > 0

\* The value the promise of processDataUrl resolves to.
ProcessDataUrl(dataUrl) ==
    IF ~Matches(dataUrl) THEN [error |-> "Invalid data URL format"]
    ELSE IF VectorizeRejects(Base64Decode(dataUrl.data))
         THEN [error |-> "vectorize failed"]
         ELSE LET result == VectorizeImage(Base64Decode(dataUrl.data))
              IN  [imageType |-> dataUrl.type, svg |-> result.svg,
                   stats |-> result.stats]

----------------------------------------------------------------------------
(* mcp.js: state and the debugCapture handler *)

\* lastReply when the step just taken answered no reader
NoReply == [reader |-> "none"]

CaptureId(t) == <<"capture_", t>>

\* createTestCapture (defined by mcp.js, called nowhere)
CreateTestCapture(t) ==
    [id |-> <<"capture_test_", t>>,
     timestamp |-> t,
     console_logs |-> << [timestamp |-> t - 1000, data |-> <<"Player position:">>],
                         [timestamp |-> t, data |-> <<"Game started">>] >>,
     console_errors |-> <<>>,
     unhandled_exception |-> Null,
     vectorized |-> [svg |-> <<SvgPart("<svg>", <<>>), SvgPart("<circle>", <<>>),
                               SvgPart("</svg>", <<>>)>>,
                     imageType |-> <<"p", "n", "g">>,
                     stats |-> [processingTime |-> 100]]]

\* The slot seeded with the test capture instead of null.
SeededLatestCapture == CreateTestCapture(1)

\* let latestCapture = null
InitialLatestCapture == Null

\* The capture built with console_errors read from console_logs.
NewCaptureCopyPaste(data, t) ==
    [id |-> CaptureId(t),
     timestamp |-> IF Has(data, "timestamp") /\ data.timestamp # 0
                   THEN data.timestamp ELSE t,
     console_logs |-> IF Has(data, "console_logs") THEN data.console_logs ELSE <<>>,
     console_errors |-> IF Has(data, "console_logs") THEN data.console_logs ELSE <<>>,
     unhandled_exception |-> IF Has(data, "unhandled_exception")
                             THEN data.unhandled_exception ELSE Null]

\* const capture = {...} at the top of the handler; x || y takes y when x is
\* undefined, null, 0 or "".
NewCapture(data, t) ==
    [id |-> CaptureId(t),
     timestamp |-> IF Has(data, "timestamp") /\ data.timestamp # 0
                   THEN data.timestamp ELSE t,
     console_logs |-> IF Has(data, "console_logs") THEN data.console_logs ELSE <<>>,
     console_errors |-> IF Has(data, "console_errors") THEN data.console_errors ELSE <<>>,
     unhandled_exception |-> IF Has(data, "unhandled_exception")
                             THEN data.unhandled_exception ELSE Null]

\* if (data.image): a missing property and the empty string are falsy
ImageProvided(data) == Has(data, "image") /\ data.image # EmptyString

\* capture.vectorized = {...} when the image result carries no error
WithImageResult(capture, imageResult) ==
    IF ~Has(imageResult, "error")
    THEN [f \in DOMAIN capture \cup {"vectorized"} |->
            IF f = "vectorized"
            THEN [svg |-> imageResult.svg, imageType |-> imageResult.imageType,
                  stats |-> imageResult.stats]
            ELSE capture[f]]
    ELSE capture

\* The acknowledgment naming the capture that was retained before this one.
SuccessAckOfPrevious(capture, t) ==
    [success |-> TRUE,
     id |-> IF latestCapture # Null THEN latestCapture.id ELSE capture.id,
     processedAt |-> t,
     svg |-> IF Has(capture, "vectorized") THEN capture.vectorized.svg ELSE Null,
     stats |-> IF Has(capture, "vectorized") THEN capture.vectorized.stats ELSE Null,
     mcpRequestCount |-> mcpRequestCount,
     mcpRequestWithoutSvgCount |-> mcpRequestWithoutSvgCount]

\* The acknowledgment with the processing error embedded when the capture
\* has no vectorized result.
SuccessAckWithError(capture, t) ==
    IF Has(capture, "vectorized")
    THEN [success |-> TRUE, id |-> capture.id, processedAt |-> t,
          svg |-> capture.vectorized.svg, stats |-> capture.vectorized.stats,
          mcpRequestCount |-> mcpRequestCount,
          mcpRequestWithoutSvgCount |-> mcpRequestWithoutSvgCount]
    ELSE [success |-> TRUE, id |-> capture.id, processedAt |-> t,
          svg |-> Null, stats |-> Null,
          error |-> "Image processing failed",
          mcpRequestCount |-> mcpRequestCount,
          mcpRequestWithoutSvgCount |-> mcpRequestWithoutSvgCount]

\* The object passed to callback() on the success path.
SuccessAck(capture, t) ==
    [success |-> TRUE,
     id |-> capture.id,
     processedAt |-> t,
     svg |-> IF Has(capture, "vectorized") THEN capture.vectorized.svg ELSE Null,
     stats |-> IF Has(capture, "vectorized") THEN capture.vectorized.stats ELSE Null,
     mcpRequestCount |-> mcpRequestCount,
     mcpRequestWithoutSvgCount |-> mcpRequestWithoutSvgCount]

\* An invocation that has returned keeps no state.
Returned == [pc |-> "done"]

\* The new capture merged over the previous one: a capture without
\* vectorized result keeps the previous capture's.
StoreMerged(previous, capture) ==
    IF previous # Null /\ Has(previous, "vectorized") /\ ~Has(capture, "vectorized")
    THEN [f \in DOMAIN capture \cup {"vectorized"} |->
            IF f = "vectorized" THEN previous.vectorized ELSE capture[f]]
    ELSE capture

\* The slot keeping only captures that have a vectorized image.
StoreVectorizedOnly(previous, capture) ==
    IF Has(capture, "vectorized") THEN capture ELSE Null

\* latestCapture = capture
StoreAsLatest(previous, capture) == capture

\* The tail of the handler invoking the callback a second time.
PublishAndAckTwice(h, data, callback, arrivedAt, capture) ==
    /\ latestCapture' = StoreAsLatest(latestCapture, capture)
    /\ publishLog' = Append(publishLog,
                            [handler |-> h, vectorized |-> Has(capture, "vectorized")])
    /\ publisher' = [data |-> data, callback |-> callback, arrivedAt |-> arrivedAt]
    /\ IF callback
       THEN /\ acks' = acks \o <<[handler |-> h, success |-> TRUE],
                                 [handler |-> h, success |-> TRUE]>>
            /\ lastAck' = SuccessAck(capture, now)
       ELSE UNCHANGED <<acks, lastAck>>

\* latestCapture = capture; if (callback) callback({...}) -- the tail of the
\* handler, run by invocation h (which arrived at arrivedAt with message
\* data) with its finished capture.
PublishAndAck(h, data, callback, arrivedAt, capture) ==
    /\ latestCapture' = StoreAsLatest(latestCapture, capture)
    /\ publishLog' = Append(publishLog,
                            [handler |-> h, vectorized |-> Has(capture, "vectorized")])
    /\ publisher' = [data |-> data, callback |-> callback, arrivedAt |-> arrivedAt]
    /\ IF callback
       THEN /\ acks' = Append(acks, [handler |-> h, success |-> TRUE])
            /\ lastAck' = SuccessAck(capture, now)
       ELSE UNCHANGED <<acks, lastAck>>

\* The handler acknowledging before it awaits the image processing.
AckBeforeAwait(h, data, callback, capture) ==
    /\ handlers' = Append(handlers,
                          [pc |-> "await", data |-> data, callback |-> callback,
                           arrivedAt |-> now, capture |-> capture])
    /\ vectorizing' = IF Matches(data.image) THEN vectorizing \cup {h} ELSE vectorizing
    /\ IF callback
       THEN /\ acks' = Append(acks, [handler |-> h, success |-> TRUE])
            /\ lastAck' = [success |-> TRUE, id |-> capture.id, processedAt |-> now,
                           svg |-> Null, stats |-> Null,
                           mcpRequestCount |-> mcpRequestCount,
                           mcpRequestWithoutSvgCount |-> mcpRequestWithoutSvgCount]
       ELSE UNCHANGED <<acks, lastAck>>
    /\ UNCHANGED <<latestCapture, publishLog, publisher>>

\* The handler invoking the engine on every image, whatever its data URL.
AwaitVectorizeAlways(h, data, callback, capture) ==
    /\ handlers' = Append(handlers,
                          [pc |-> "await", data |-> data, callback |-> callback,
                           arrivedAt |-> now, capture |-> capture])
    /\ vectorizing' = vectorizing \cup {h}
    /\ UNCHANGED <<latestCapture, publishLog, publisher, acks, lastAck>>

\* if (data.image) { ... await processDataUrl(data.image) }: processDataUrl
\* runs up to the await inside vectorizeImage when the data URL matches (the
\* engine is then working on the image), and the handler is suspended with
\* nothing published and nothing acknowledged.
AwaitProcessDataUrl(h, data, callback, capture) ==
    /\ handlers' = Append(handlers,
                          [pc |-> "await", data |-> data, callback |-> callback,
                           arrivedAt |-> now, capture |-> capture])
    /\ vectorizing' = IF Matches(data.image) THEN vectorizing \cup {h} ELSE vectorizing
    /\ UNCHANGED <<latestCapture, publishLog, publisher, acks, lastAck>>

\* data.timestamp, the first property access of the handler, throws a
\* TypeError when data is null.
HandlerThrows(data) == data = NullPayload

\* catch (error) { if (callback) callback({error: error.message, success: false}) }
FailureAck == [error |-> "TypeError", success |-> FALSE]

\* An invocation that has returned through its catch block.
Caught(callback) == [pc |-> "caught", callback |-> callback]

\* The catch block clearing the retained capture.
CatchAndReset(h, callback) ==
    /\ handlers' = Append(handlers, Caught(callback))
    /\ IF callback
       THEN /\ acks' = Append(acks, [handler |-> h, success |-> FALSE])
            /\ lastAck' = FailureAck
       ELSE UNCHANGED <<acks, lastAck>>
    /\ latestCapture' = Null
    /\ UNCHANGED <<publishLog, publisher, vectorizing>>

\* The handler with its try block's exception caught: nothing is published.
CatchAndAck(h, callback) ==
    /\ handlers' = Append(handlers, Caught(callback))
    /\ IF callback
       THEN /\ acks' = Append(acks, [handler |-> h, success |-> FALSE])
            /\ lastAck' = FailureAck
       ELSE UNCHANGED <<acks, lastAck>>
    /\ UNCHANGED <<latestCapture, publishLog, publisher, vectorizing>>

\* socket.on('debugCapture', async (data, callback) => ...) up to its first
\* suspension: a message without image runs to the end of the handler at
\* once, a message with an image suspends the handler.  The handlers of all
\* sockets share the module's state, so the socket is not part of the
\* invocation.
DebugCapture(data, callback) ==
    /\ Len(handlers) < MaxSubmissions
    /\ LET h == Len(handlers) + 1
           capture == NewCapture(data, now)
       IN  IF HandlerThrows(data)
           THEN CatchAndAck(h, callback)
           ELSE IF ImageProvided(data)
           THEN AwaitProcessDataUrl(h, data, callback, capture)
           ELSE /\ handlers' = Append(handlers, Returned)
                /\ PublishAndAck(h, data, callback, now, capture)
                /\ UNCHANGED vectorizing
    /\ lastReply' = NoReply
    /\ UNCHANGED <<now, mcpRequestCount, mcpRequestWithoutSvgCount>>
    /\ UNCHANGED <<hung, gone, client, call>>

\* The handler resuming only once every invocation that arrived before it
\* has returned.
ResumeInArrivalOrder(h) ==
    /\ h \in 1..Len(handlers)
    /\ handlers[h].pc = "await"
    /\ h \notin hung
    /\ \A g \in 1..(h - 1) : handlers[g].pc # "await"
    /\ LET imageResult == ProcessDataUrl(handlers[h].data.image)
           capture == WithImageResult(handlers[h].capture, imageResult)
       IN  PublishAndAck(h, handlers[h].data, handlers[h].callback,
                         handlers[h].arrivedAt, capture)
    /\ handlers' = [handlers EXCEPT ![h] = Returned]
    /\ vectorizing' = vectorizing \ {h}
    /\ lastReply' = NoReply
    /\ UNCHANGED <<now, mcpRequestCount, mcpRequestWithoutSvgCount>>
    /\ UNCHANGED <<hung, gone, client, call>>

\* The handler resumes after `await processDataUrl(data.image)`, once the
\* promise of vectorize() has settled (a data URL that does not match
\* settles at once): the image result is stored on the capture, the capture
\* is published, the acknowledgment is sent.
ResumeDebugCapture(h) ==
    /\ h \in 1..Len(handlers)
    /\ handlers[h].pc = "await"
    /\ h \notin hung
    /\ LET imageResult == ProcessDataUrl(handlers[h].data.image)
           capture == WithImageResult(handlers[h].capture, imageResult)
       IN  PublishAndAck(h, handlers[h].data, handlers[h].callback,
                         handlers[h].arrivedAt, capture)
    /\ handlers' = [handlers EXCEPT ![h] = Returned]
    /\ vectorizing' = vectorizing \ {h}
    /\ lastReply' = NoReply
    /\ UNCHANGED <<now, mcpRequestCount, mcpRequestWithoutSvgCount>>
    /\ UNCHANGED <<hung, gone, client, call>>

----------------------------------------------------------------------------
(* mcp.js: the readers *)

\* GET /latest counted as a request of the tool.
GetLatestCounted ==
    /\ lastReply' = IF latestCapture # Null
                    THEN [reader |-> "GET /latest",
                          status |-> 200, body |-> latestCapture]
                    ELSE [reader |-> "GET /latest",
                          status |-> 404,
                          body |-> [error |-> "No captures available yet"]]
    /\ mcpRequestCount' = mcpRequestCount + 1
    /\ UNCHANGED <<now, latestCapture, mcpRequestWithoutSvgCount,
                   handlers, vectorizing, acks, lastAck, publishLog,
                   publisher>>
    /\ UNCHANGED <<hung, gone, client, call>>

\* app.get('/latest')
GetLatest ==
    /\ lastReply' = IF latestCapture # Null
                    THEN [reader |-> "GET /latest",
                          status |-> 200, body |-> latestCapture]
                    ELSE [reader |-> "GET /latest",
                          status |-> 404,
                          body |-> [error |-> "No captures available yet"]]
    /\ UNCHANGED <<now, latestCapture, mcpRequestCount, mcpRequestWithoutSvgCount,
                   handlers, vectorizing, acks, lastAck, publishLog,
                   publisher>>
    /\ UNCHANGED <<hung, gone, client, call>>

\* socket.on('getLatestCapture', (callback) => ...)
GetLatestCapture ==
    /\ lastReply' =
         IF latestCapture # Null
         THEN [reader |-> "getLatestCapture",
               reply |-> [success |-> TRUE,
                          capture |-> latestCapture,
                          svg |-> IF Has(latestCapture, "vectorized")
                                  THEN IF Has(latestCapture.vectorized, "svg")
                                       THEN latestCapture.vectorized.svg
                                       ELSE [undefined |-> TRUE]
                                  ELSE Null,
                          stats |-> IF Has(latestCapture, "vectorized")
                                    THEN latestCapture.vectorized.stats ELSE Null]]
         ELSE [reader |-> "getLatestCapture",
               reply |-> [success |-> FALSE, error |-> "No captures available yet"]]
    /\ UNCHANGED <<now, latestCapture, mcpRequestCount, mcpRequestWithoutSvgCount,
                   handlers, vectorizing, acks, lastAck, publishLog,
                   publisher>>
    /\ UNCHANGED <<hung, gone, client, call>>

\* The connection handler announcing the status whether or not a capture
\* is retained.
ConnectionAlwaysNotifies ==
    /\ lastReply' = [reader |-> "connection",
                     emits |-> <<[event |-> "captureStatus",
                                  payload |-> [hasCapture |-> latestCapture # Null,
                                               timestamp |->
                                                   IF latestCapture # Null
                                                   THEN latestCapture.timestamp
                                                   ELSE 0]]>>]
    /\ UNCHANGED <<now, latestCapture, mcpRequestCount, mcpRequestWithoutSvgCount,
                   handlers, vectorizing, acks, lastAck, publishLog,
                   publisher>>
    /\ UNCHANGED <<hung, gone, client, call>>

\* io.on('connection', (socket) => ...): what the handler emits to the
\* socket that has just connected.
Connection ==
    /\ lastReply' = IF latestCapture # Null
                    THEN [reader |-> "connection",
                          emits |-> <<[event |-> "captureStatus",
                                       payload |-> [hasCapture |-> TRUE,
                                                    timestamp |->
                                                        latestCapture.timestamp]]>>]
                    ELSE [reader |-> "connection", emits |-> <<>>]
    /\ UNCHANGED <<now, latestCapture, mcpRequestCount, mcpRequestWithoutSvgCount,
                   handlers, vectorizing, acks, lastAck, publishLog,
                   publisher>>
    /\ UNCHANGED <<hung, gone, client, call>>

\* new Date(ms).toISOString()
ToISOString(ms) == <<"ISO", ms>>

\* Array.prototype.join(' ')
RECURSIVE JoinSpace(_)
JoinSpace(parts) ==
    IF Len(parts) = 0 THEN <<>>
    ELSE IF Len(parts) = 1 THEN <<parts[1]>>
    ELSE <<parts[1], " ">> \o JoinSpace(Tail(parts))

\* entries.map(e => ({time: ..., message: e.data.join(' ')}))
FormatEntries(entries) ==
    [k \in 1..Len(entries) |->
        [time |-> ToISOString(entries[k].timestamp),
         message |-> JoinSpace(entries[k].data)]]

\* log.data.join(' ') throws a TypeError for an entry without data.
FormatThrows(entries) == \E k \in 1..Len(entries) : ~Has(entries[k], "data")

\* The tool's two map() calls run before anything is returned.
ToolThrows(capture) ==
    FormatThrows(capture.console_logs) \/ FormatThrows(capture.console_errors)

\* delete capture.vectorized.svg
DeleteSvg(capture) ==
    [capture EXCEPT !.vectorized =
        [f \in DOMAIN capture.vectorized \ {"svg"} |-> capture.vectorized[f]]]

\* The record the tool works on: latestCapture itself, with the svg property
\* deleted when the caller did not ask for it.
ToolCapture(capture, includeSvg) ==
    IF ~includeSvg /\ Has(capture, "vectorized") THEN DeleteSvg(capture) ELSE capture

\* textContent, as the sequence of its sections
TextContent(capture) ==
    << [section |-> "Game State:",
        body |-> <<capture.id, ToISOString(capture.timestamp)>>],
       [section |-> "Console Logs:", body |-> FormatEntries(capture.console_logs)],
       IF Len(capture.console_errors) > 0
       THEN [section |-> "Errors:", body |-> FormatEntries(capture.console_errors)]
       ELSE [section |-> "No errors.", body |-> <<>>] >>
    \o IF capture.unhandled_exception # Null
       THEN << [section |-> "Unhandled Exception:",
                body |-> <<capture.unhandled_exception>>] >>
       ELSE <<>>

\* The result object of the tool for a retained capture.
ToolResult(capture, includeSvg) ==
    LET hasSvg == /\ Has(capture, "vectorized")
                  /\ Has(capture.vectorized, "svg")
                  /\ Len(capture.vectorized.svg) > 0
    IN  [success |-> TRUE,
         text |-> TextContent(capture)
                  \o IF hasSvg /\ includeSvg
                     THEN << [section |-> "SVG Approximation:",
                              body |-> capture.vectorized.svg] >>
                     ELSE <<>>]

NoDataResult ==
    [success |-> FALSE,
     text |-> << [section |-> "No game data available yet.", body |-> <<>>] >>]

\* The second counter counting the calls that ask for the SVG.
CountWithSvg(includeSvg, count) ==
    IF includeSvg THEN count + 1 ELSE count

\* if (!includeSvg) { mcpRequestWithoutSvgCount++; }
CountWithoutSvg(includeSvg, count) ==
    IF ~includeSvg THEN count + 1 ELSE count

\* mcpServer.tool("getGameDebugInfoWithLogsAndVisualization", ...)
GetGameDebugInfo(includeSvg) ==
    /\ mcpRequestCount < MaxMcpRequests
    /\ mcpRequestCount' = mcpRequestCount + 1
    /\ mcpRequestWithoutSvgCount' =
         CountWithoutSvg(includeSvg, mcpRequestWithoutSvgCount)
    /\ IF latestCapture = Null
       THEN /\ lastReply' = [reader |-> "mcp",
                             includeSvg |-> includeSvg, result |-> NoDataResult]
            /\ UNCHANGED latestCapture
       ELSE LET capture == ToolCapture(latestCapture, includeSvg)
            IN  /\ latestCapture' = capture
                /\ lastReply' = IF ToolThrows(capture)
                                THEN [reader |-> "mcp",
                                      includeSvg |-> includeSvg,
                                      threw |-> "TypeError"]
                                ELSE [reader |-> "mcp",
                                      includeSvg |-> includeSvg,
                                      result |-> ToolResult(capture, includeSvg)]
    /\ UNCHANGED <<now, handlers, vectorizing, acks, lastAck, publishLog,
                   publisher>>
    /\ UNCHANGED <<hung, gone, client, call>>

----------------------------------------------------------------------------
(* The browser client (VectorizerClient).  The record `client` holds the    *)
(* fields of window.vectorizerClient under their own names, and with them   *)
(* what the browser holds for it: the page's canvas (domCanvas), the        *)
(* browser's clock, the timers that are pending but no longer referenced by *)
(* captureTimeout (orphanTimers), the debugCapture emits of the current     *)
(* connection that the server has not acknowledged (unacked).  emitted says *)
(* whether the step just taken emitted a debugCapture, emittedSince whether *)
(* one was emitted since the loop was last stopped, logCalls counts the     *)
(* page's own console calls, sent is the message of the latest emit,        *)
(* reconnecting says that the socket lost a connection and has not got it   *)
(* back, lastException is the exception the window's listeners recorded     *)
(* last, sockets counts the sockets the instance has created.  Every method *)
(* is an operator from the record before the call to the record after it.   *)

DEFAULT_CONFIG ==
    [captureDelay |-> 1000, maxLogs |-> 10, maxErrors |-> 10,
     autoConnect |-> FALSE, autoCapture |-> FALSE]

\* { ...a, ...b }
Merge(a, b) ==
    [f \in DOMAIN a \cup DOMAIN b |-> IF f \in DOMAIN b THEN b[f] ELSE a[f]]

\* The configurations the page passes to initializeVectorizer.
UserConfigs ==
    {[maxLogs |-> n, maxErrors |-> n, autoCapture |-> a] :
        n \in 1..MaxLimit, a \in BOOLEAN}

\* { timestamp: Date.now(), data: args }
Entry(t, text) == [timestamp |-> t, data |-> <<text>>]

\* while (buffer.length > limit) buffer.shift()
RECURSIVE Trim(_, _)
Trim(buffer, limit) ==
    IF Len(buffer) > limit THEN Trim(Tail(buffer), limit) ELSE buffer

\* push(entry), then the while loop
PushAndTrim(buffer, entry, limit) ==
    Trim(Append(buffer, entry), limit)

\* The proxy installed on console.log; the client's own console.log calls
\* go through it like the page's.
Log(c, text) ==
    [c EXCEPT !.console_logs =
        PushAndTrim(@, Entry(c.clock, text), c.config.maxLogs)]

\* The proxy installed on console.error.
LogError(c, text) ==
    [c EXCEPT !.console_errors =
        PushAndTrim(@, Entry(c.clock, text), c.config.maxErrors)]

\* The events the window dispatches: an error thrown by a script of the
\* page, and the "Script error." of a cross-origin script, which carries
\* no error object and no location.
ErrorEvents ==
    {[error |-> [message |-> "x is not defined", name |-> "ReferenceError",
                 stack |-> "at update"],
      message |-> "Uncaught ReferenceError", filename |-> "game.js",
      lineno |-> 3, colno |-> 7],
     [message |-> "Script error.", filename |-> "", lineno |-> 0, colno |-> 0]}

\* unhandledrejection events: the reason is an Error, or a value without
\* message and stack, or missing.
RejectionEvents ==
    {[reason |-> [message |-> "fetch failed", name |-> "TypeError",
                  stack |-> "at load"]],
     [reason |-> [primitive |-> "oops"]],
     [type |-> "unhandledrejection"]}

\* new Error(message)
NewError(message) == [message |-> message, name |-> "Error", stack |-> "at Error"]

\* window.addEventListener('error', ...): the listener of the client c
OnError(c, event) ==
    LET error == IF Has(event, "error") THEN event.error
                 ELSE NewError(event.message)
        exception ==
            [timestamp |-> c.clock,
             message |-> IF Has(error, "message") /\ error.message # ""
                         THEN error.message ELSE "Unknown error",
             stack |-> IF Has(error, "stack") THEN error.stack
                       ELSE "No stack trace available",
             source |-> IF event.filename # "" THEN event.filename
                        ELSE "Unknown source",
             line |-> event.lineno,
             column |-> event.colno,
             type |-> IF Has(error, "name") THEN error.name ELSE "Error"]
    IN  LogError([c EXCEPT !.unhandled_exception = exception,
                           !.lastException = exception],
                 "Unhandled exception captured")

\* window.addEventListener('unhandledrejection', ...)
OnUnhandledRejection(c, event) ==
    LET error == IF Has(event, "reason") THEN event.reason
                 ELSE NewError("Unhandled Promise rejection")
        exception ==
            [timestamp |-> c.clock,
             message |-> IF Has(error, "message") THEN error.message
                         ELSE "Unhandled Promise rejection",
             stack |-> IF Has(error, "stack") THEN error.stack
                       ELSE "No stack trace available",
             type |-> "UnhandledPromiseRejection",
             reason |-> IF Has(event, "reason") THEN event.reason
                        ELSE [undefined |-> TRUE]]
    IN  LogError([c EXCEPT !.unhandled_exception = exception,
                           !.lastException = exception],
                 "Unhandled promise rejection captured")

\* The fields the constructor sets, for configuration cfg; what the browser
\* holds is taken over from c.
NewVectorizerClient(c, cfg) ==
    [c EXCEPT !.config = Merge(DEFAULT_CONFIG, cfg),
              !.socket = FALSE,
              !.canvas = FALSE,
              !.console_logs = <<>>,
              !.console_errors = <<>>,
              !.unhandled_exception = Null,
              !.isConnected = FALSE,
              !.isCapturing = FALSE,
              !.captureTimeout = "null",
              !.initialized = FALSE,
              !.emittedSince = FALSE,
              !.reconnecting = FALSE,
              !.sockets = 0]

\* findCanvas(): console.warn is not proxied
FindCanvas(c) ==
    IF c.domCanvas # "none"
    THEN Log([c EXCEPT !.canvas = TRUE], "Found canvas")
    ELSE [c EXCEPT !.canvas = FALSE]

\* connectToServer(), with socket.io loaded: the socket is created and
\* starts connecting.
ConnectToServer(c) ==
    [Log(c, "Connecting to server") EXCEPT !.socket = TRUE, !.sockets = @ + 1]

\* initialize()
Initialize(c) ==
    IF c.initialized
    THEN Log(c, "Client already initialized")
    ELSE ConnectToServer(
            FindCanvas(Log([c EXCEPT !.initialized = TRUE], "Initializing client")))

\* this.captureTimeout = setTimeout(() => this.captureAndSend(), ...): a
\* timer still pending under the old handle stays pending, unreferenced.
SetCaptureTimeout(c) ==
    [c EXCEPT !.captureTimeout = "pending",
              !.orphanTimers = IF c.captureTimeout = "pending" THEN @ + 1 ELSE @]

\* const message = {...}: of the message's properties the model keeps
\* unhandled_exception.
Message(c) == [unhandled_exception |-> c.unhandled_exception]

\* sent before the first emit
NoMessage == [none |-> TRUE]

\* captureAndSend() without the isCapturing test.
CaptureAndSendWhenConnected(c) ==
    IF ~c.isConnected THEN c
    ELSE LET d == IF c.canvas THEN c ELSE FindCanvas(c)
         IN  IF ~d.canvas THEN SetCaptureTimeout(d)
             ELSE IF d.domCanvas = "tainted"
             THEN SetCaptureTimeout(LogError(d, "Error capturing canvas"))
             ELSE [d EXCEPT !.unacked = @ + 1,
                            !.emitted = TRUE,
                            !.emittedSince = TRUE,
                            !.sent = Message(d)]

\* captureAndSend(): toDataURL throws on a tainted canvas, and the catch
\* block schedules a retry; otherwise the message is emitted with the
\* acknowledgment callback.
CaptureAndSend(c) ==
    IF ~c.isConnected \/ ~c.isCapturing THEN c
    ELSE LET d == IF c.canvas THEN c ELSE FindCanvas(c)
         IN  IF ~d.canvas THEN SetCaptureTimeout(d)
             ELSE IF d.domCanvas = "tainted"
             THEN SetCaptureTimeout(LogError(d, "Error capturing canvas"))
             ELSE [d EXCEPT !.unacked = @ + 1,
                            !.emitted = TRUE,
                            !.emittedSince = TRUE,
                            !.sent = Message(d)]

\* startCaptureLoop()
StartCaptureLoop(c) ==
    IF c.isCapturing THEN c
    ELSE CaptureAndSend([c EXCEPT !.isCapturing = TRUE])

\* stopCaptureLoop(): clearTimeout cancels the timer if it is still pending
StopCaptureLoop(c) ==
    [c EXCEPT !.isCapturing = FALSE,
              !.captureTimeout = "null",
              !.emittedSince = FALSE]

\* this.socket.on('connect', ...)
OnConnect(c) ==
    LET d == Log([c EXCEPT !.isConnected = TRUE, !.reconnecting = FALSE],
                 "Connected to server")
    IN  IF d.config.autoCapture
        THEN StartCaptureLoop(d)
        ELSE Log(d, "Connected but not auto-capturing")

\* this.socket.on('disconnect', ...): the acknowledgments of the emits of
\* the lost connection never come.
OnDisconnect(c) ==
    StopCaptureLoop(
        Log([c EXCEPT !.isConnected = FALSE, !.unacked = 0,
                      !.reconnecting = TRUE],
            "Disconnected from server"))

\* The acknowledgment callback passed to socket.emit('debugCapture', ...)
OnAcknowledgment(c) ==
    SetCaptureTimeout([c EXCEPT !.unacked = @ - 1])

\* initializeVectorizer(config)
InitializeVectorizer(c, cfg) ==
    IF c.initialized
    THEN [Log(c, "Already initialized, updating config")
            EXCEPT !.config = Merge(c.config, cfg)]
    ELSE Initialize(NewVectorizerClient(c, cfg))

\* window.vectorizerClient = new VectorizerClient(), in a page without a
\* canvas yet.
InitialClient ==
    [config |-> DEFAULT_CONFIG,
     socket |-> FALSE,
     canvas |-> FALSE,
     console_logs |-> <<>>,
     console_errors |-> <<>>,
     unhandled_exception |-> Null,
     isConnected |-> FALSE,
     isCapturing |-> FALSE,
     captureTimeout |-> "null",
     initialized |-> FALSE,
     domCanvas |-> "none",
     clock |-> 1,
     orphanTimers |-> 0,
     unacked |-> 0,
     emitted |-> FALSE,
     emittedSince |-> FALSE,
     logCalls |-> 0,
     sent |-> NoMessage,
     reconnecting |-> FALSE,
     lastException |-> Null,
     sockets |-> 0]

----------------------------------------------------------------------------
(* The clock and the specification *)

Tick ==
    /\ now < MaxClock
    /\ now' = now + 1
    /\ lastReply' = NoReply
    /\ UNCHANGED <<latestCapture, mcpRequestCount, mcpRequestWithoutSvgCount,
                   handlers, vectorizing, acks, lastAck, publishLog,
                   publisher>>
    /\ UNCHANGED <<hung, gone, client, call>>

\* The promise of vectorize() for invocation h never settles: the engine
\* hangs on the image.
VectorizeHangs(h) ==
    /\ h \in vectorizing \ hung
    /\ hung' = hung \cup {h}
    /\ lastReply' = NoReply
    /\ UNCHANGED <<now, latestCapture, mcpRequestCount, mcpRequestWithoutSvgCount,
                   handlers, vectorizing, acks, lastAck, publishLog,
                   publisher, gone, client, call>>

\* socket.on('disconnect'): the socket of invocation h disconnects while
\* the invocation is suspended; the handler of the event only logs.
Disconnect(h) ==
    /\ h \in 1..Len(handlers)
    /\ handlers[h].pc = "await"
    /\ h \notin gone
    /\ gone' = gone \cup {h}
    /\ lastReply' = NoReply
    /\ UNCHANGED <<now, latestCapture, mcpRequestCount, mcpRequestWithoutSvgCount,
                   handlers, vectorizing, acks, lastAck, publishLog,
                   publisher, hung, client, call>>

\* The server after start-up and the client after the page has loaded
Started ==
    /\ now = 1
    /\ latestCapture = InitialLatestCapture
    /\ mcpRequestCount = 0
    /\ mcpRequestWithoutSvgCount = 0
    /\ handlers = <<>>
    /\ vectorizing = {}
    /\ acks = <<>>
    /\ lastAck = Null
    /\ publishLog = <<>>
    /\ publisher = Null
    /\ lastReply = NoReply
    /\ hung = {}
    /\ gone = {}
    /\ client = InitialClient

\* call when no function of vectorizer.js is being called
NoCall == [fn |-> "none"]

Init ==
    /\ Started
    /\ call = NoCall

Next ==
    \/ \E emit \in Emits : DebugCapture(emit[1], emit[2])
    \/ \E h \in 1..MaxSubmissions : ResumeDebugCapture(h)
    \/ GetLatest
    \/ GetLatestCapture
    \/ \E includeSvg \in BOOLEAN : GetGameDebugInfo(includeSvg)
    \/ Tick

Spec == Init /\ [][Next]_vars

\* The server with a producer that sends malformed messages.
NextMalformed ==
    \/ \E emit \in MalformedEmits : DebugCapture(emit[1], emit[2])
    \/ \E h \in 1..MaxSubmissions : ResumeDebugCapture(h)
    \/ \E h \in 1..MaxSubmissions : Disconnect(h)
    \/ GetLatest
    \/ GetLatestCapture
    \/ \E includeSvg \in BOOLEAN : GetGameDebugInfo(includeSvg)
    \/ Tick

SpecMalformed == Init /\ [][NextMalformed]_vars

\* The server with conversions that hang and producers that disconnect
\* before their acknowledgment.  Every producer passes a callback.
StarveEmits == {PngMessage, CorruptMessage, LogsOnlyMessage} \X {TRUE}

NextStarve ==
    \/ \E emit \in StarveEmits : DebugCapture(emit[1], emit[2])
    \/ \E h \in 1..MaxSubmissions : ResumeDebugCapture(h)
    \/ \E h \in 1..MaxSubmissions : VectorizeHangs(h)
    \/ \E h \in 1..MaxSubmissions : Disconnect(h)
    \/ Tick

SpecStarve == Init /\ [][NextStarve]_vars

\* The server with producers that connect while captures come in.
NextConnect ==
    \/ \E emit \in Emits : DebugCapture(emit[1], emit[2])
    \/ \E h \in 1..MaxSubmissions : ResumeDebugCapture(h)
    \/ Connection
    \/ Tick

SpecConnect == Init /\ [][NextConnect]_vars

----------------------------------------------------------------------------
(* The client's steps: the page's calls, the socket's events, the timers *)

\* The record a step starts from: nothing emitted yet in this step.
Before == [client EXCEPT !.emitted = FALSE]

\* The exploration stops where a step would exceed its bounds.
WithinBounds(c) ==
    /\ c.unacked <= MaxUnacked
    /\ c.orphanTimers <= MaxOrphans

\* The page calls initializeVectorizer(cfg).
CallInitializeVectorizer(cfg) ==
    /\ client' = InitializeVectorizer(Before, cfg)
    /\ WithinBounds(client')
    /\ UNCHANGED <<serverVars, call>>

\* The page calls window.vectorizerClient.initialize().
CallInitialize ==
    /\ client' = Initialize(Before)
    /\ WithinBounds(client')
    /\ UNCHANGED <<serverVars, call>>

\* The page calls startCaptureLoop().
CallStartCaptureLoop ==
    /\ client' = StartCaptureLoop(Before)
    /\ WithinBounds(client')
    /\ UNCHANGED <<serverVars, call>>

\* The page calls stopCaptureLoop().
CallStopCaptureLoop ==
    /\ client' = StopCaptureLoop(Before)
    /\ WithinBounds(client')
    /\ UNCHANGED <<serverVars, call>>

\* The page calls captureAndSend().
CallCaptureAndSend ==
    /\ client' = CaptureAndSend(Before)
    /\ WithinBounds(client')
    /\ UNCHANGED <<serverVars, call>>

\* The socket connects (also again, after a disconnect).
SocketConnect ==
    /\ client.socket
    /\ ~client.isConnected
    /\ client' = OnConnect(Before)
    /\ WithinBounds(client')
    /\ UNCHANGED <<serverVars, call>>

\* The socket loses its connection.
SocketDisconnect ==
    /\ client.isConnected
    /\ client' = OnDisconnect(Before)
    /\ WithinBounds(client')
    /\ UNCHANGED <<serverVars, call>>

\* The server's acknowledgment of an emit of this connection arrives.
AcknowledgmentArrives ==
    /\ client.isConnected
    /\ client.unacked > 0
    /\ client' = OnAcknowledgment(Before)
    /\ WithinBounds(client')
    /\ UNCHANGED <<serverVars, call>>

\* The timer captureTimeout refers to fires; the handle keeps its value.
CaptureTimeoutFires ==
    /\ client.captureTimeout = "pending"
    /\ client' = CaptureAndSend([Before EXCEPT !.captureTimeout = "fired"])
    /\ WithinBounds(client')
    /\ UNCHANGED <<serverVars, call>>

\* A pending timer that captureTimeout no longer refers to fires.
OrphanTimerFires ==
    /\ client.orphanTimers > 0
    /\ client' = CaptureAndSend([Before EXCEPT !.orphanTimers = @ - 1])
    /\ WithinBounds(client')
    /\ UNCHANGED <<serverVars, call>>

\* The page gets its canvas: one that can be read, or one tainted by
\* cross-origin content.
CanvasAppears(kind) ==
    /\ client.domCanvas = "none"
    /\ client' = [Before EXCEPT !.domCanvas = kind]
    /\ UNCHANGED <<serverVars, call>>

\* The page calls console.log(text).
ConsoleLog(text) ==
    /\ client.logCalls < MaxLogCalls
    /\ client' = Log([Before EXCEPT !.logCalls = @ + 1], text)
    /\ UNCHANGED <<serverVars, call>>

\* The page calls console.error(text).
ConsoleError(text) ==
    /\ client.logCalls < MaxLogCalls
    /\ client' = LogError([Before EXCEPT !.logCalls = @ + 1], text)
    /\ UNCHANGED <<serverVars, call>>

\* The browser's clock advances.
ClientTick ==
    /\ client.clock < MaxClientClock
    /\ client' = [Before EXCEPT !.clock = @ + 1]
    /\ UNCHANGED <<serverVars, call>>

\* The capture loop of the client.
NextLoop ==
    \/ \E cfg \in UserConfigs : CallInitializeVectorizer(cfg)
    \/ CallStartCaptureLoop
    \/ CallStopCaptureLoop
    \/ CallCaptureAndSend
    \/ SocketConnect
    \/ SocketDisconnect
    \/ AcknowledgmentArrives
    \/ CaptureTimeoutFires
    \/ OrphanTimerFires
    \/ \E kind \in {"ok", "tainted"} : CanvasAppears(kind)

SpecLoop == Init /\ [][NextLoop]_vars

\* The log buffers of the client.
NextLogs ==
    \/ \E cfg \in UserConfigs : CallInitializeVectorizer(cfg)
    \/ \E text \in {"hello", "position"} : ConsoleLog(text)
    \/ ConsoleError("boom")
    \/ ClientTick

SpecLogs == Init /\ [][NextLogs]_vars

\* The window dispatches an error event.
WindowError(event) ==
    /\ client' = OnError(Before, event)
    /\ UNCHANGED <<serverVars, call>>

\* The window dispatches an unhandledrejection event.
WindowUnhandledRejection(event) ==
    /\ client' = OnUnhandledRejection(Before, event)
    /\ UNCHANGED <<serverVars, call>>

\* The client in a page whose scripts fail.
NextErrors ==
    \/ \E cfg \in UserConfigs : CallInitializeVectorizer(cfg)
    \/ CallStartCaptureLoop
    \/ SocketConnect
    \/ AcknowledgmentArrives
    \/ CaptureTimeoutFires
    \/ CanvasAppears("ok")
    \/ \E event \in ErrorEvents : WindowError(event)
    \/ \E event \in RejectionEvents : WindowUnhandledRejection(event)
    \/ ClientTick

SpecErrors == Init /\ [][NextErrors]_vars

\* The client in a page that initializes it more than once.
NextInitialize ==
    \/ \E cfg \in UserConfigs : CallInitializeVectorizer(cfg)
    \/ CallInitialize
    \/ SocketConnect
    \/ SocketDisconnect
    \/ \E kind \in {"ok", "tainted"} : CanvasAppears(kind)
    \/ ClientTick

SpecInitialize == Init /\ [][NextInitialize]_vars

----------------------------------------------------------------------------
(* The functions of vectorizer.js, called on their own *)

MaxDocLen == 2
MaxElapsed == 1

\* #1A80FF and #194ce6
Colours ==
    { << <<"1", "A">>, <<"8", "0">>, <<"F", "F">> >>,
      << <<"1", "9">>, <<"4", "c">>, <<"e", "6">> >> }

\* The documents vectorize() answers: any sequence of these parts, the
\* empty document included.
EngineParts ==
    {SvgPart("<?xml?>", <<>>), SvgPart("<!-- -->", <<>>)}
    \cup {[tag |-> "<path>", body |-> <<>>, fill |-> c] : c \in Colours}

EngineDocuments == UNION {[1..n -> EngineParts] : n \in 0..MaxDocLen}

\* The options objects of the callers
OptionsObjects ==
    {ProcessDataUrlOptions, [optimize |-> TRUE], [optimize |-> FALSE],
     [shortHex |-> FALSE], [optimize |-> FALSE, shortHex |-> FALSE]}

VectorizeImageCalls ==
    {[fn |-> "vectorizeImage", svg |-> d, options |-> o,
      optimizer |-> [throws |-> t, elapsed |-> e]] :
        d \in EngineDocuments, o \in OptionsObjects, t \in BOOLEAN,
        e \in 0..MaxElapsed}

RoundHexComponentCalls ==
    {[fn |-> "roundHexComponent", hexPair |-> <<a, b>>] :
        a \in HexChars, b \in HexChars}

RoundHexColorsCalls ==
    {[fn |-> "roundHexColors", svg |-> d] : d \in EngineDocuments}

Calls == VectorizeImageCalls \cup RoundHexComponentCalls \cup RoundHexColorsCalls

HasResult == Has(call, "result")

InitVectorizer ==
    /\ Started
    /\ call \in Calls

CallVectorizeImage ==
    /\ call.fn = "vectorizeImage"
    /\ ~HasResult
    /\ call' = [fn |-> call.fn, svg |-> call.svg, options |-> call.options,
                optimizer |-> call.optimizer,
                result |-> VectorizeImageOf(call.svg, call.options, call.optimizer)]
    /\ UNCHANGED <<serverVars, client>>

CallRoundHexComponent ==
    /\ call.fn = "roundHexComponent"
    /\ ~HasResult
    /\ call' = [fn |-> call.fn, hexPair |-> call.hexPair,
                result |-> RoundHexComponent(call.hexPair)]
    /\ UNCHANGED <<serverVars, client>>

CallRoundHexColors ==
    /\ call.fn = "roundHexColors"
    /\ ~HasResult
    /\ call' = [fn |-> call.fn, svg |-> call.svg,
                result |-> RoundHexColors(call.svg)]
    /\ UNCHANGED <<serverVars, client>>

NextVectorizer ==
    \/ CallVectorizeImage
    \/ CallRoundHexComponent
    \/ CallRoundHexColors

SpecVectorizer == InitVectorizer /\ [][NextVectorizer]_vars

----------------------------------------------------------------------------
(* Properties *)

LastPublished == publishLog[Len(publishLog)]

PublishedHandlers == {publishLog[j].handler : j \in 1..Len(publishLog)}

\* The image of message d is provided and its processing ends in an error:
\* the data URL does not match, or the engine rejects the decoded bytes.
ImageFails(d) ==
    /\ ImageProvided(d)
    /\ \/ ~Matches(d.image)
       \/ VectorizeRejects(Base64Decode(d.image.data))

MessageLogs(d) == IF Has(d, "console_logs") THEN d.console_logs ELSE <<>>
MessageErrors(d) == IF Has(d, "console_errors") THEN d.console_errors ELSE <<>>
MessageException(d) ==
    IF Has(d, "unhandled_exception") THEN d.unhandled_exception ELSE Null

\* C1: the conversion engine never works on two submissions at the same time.
SingleFlight == Cardinality(vectorizing) <= 1

\* C2: captures are published in the order their messages arrived.
FifoPublication ==
    \A j, k \in 1..Len(publishLog) :
        j < k => publishLog[j].handler < publishLog[k].handler

\* C3: every field of the retained record comes from the one submission that
\* published most recently; nothing of an earlier record is kept.
SingleSubmissionRecord ==
    latestCapture # Null =>
        LET d == publisher.data
            v == latestCapture.vectorized
        IN  /\ Len(publishLog) > 0
            /\ latestCapture.id = <<"capture_", publisher.arrivedAt>>
            /\ \/ latestCapture.timestamp = publisher.arrivedAt
               \/ Has(d, "timestamp") /\ latestCapture.timestamp = d.timestamp
            /\ latestCapture.console_logs = MessageLogs(d)
            /\ latestCapture.console_errors = MessageErrors(d)
            /\ latestCapture.unhandled_exception = MessageException(d)
            /\ Has(latestCapture, "vectorized") =>
                 /\ ImageProvided(d)
                 /\ ~ImageFails(d)
                 /\ v.imageType = d.image.type
                 /\ v.stats = VectorizeImage(Base64Decode(d.image.data)).stats
                 /\ Has(v, "svg") =>
                      v.svg = VectorizeImage(Base64Decode(d.image.data)).svg

\* C3 witness: a capture with a vector document was published, then one
\* whose image failed; the second is retained.
SingleSubmissionRecordWitness ==
    /\ Len(publishLog) = 2
    /\ publishLog[1].vectorized
    /\ ~publishLog[2].vectorized
    /\ ImageFails(publisher.data)
    /\ latestCapture # Null

\* C4: a record a reader obtains has no vectorized field or a complete one
\* (svg, imageType and stats).
CompleteRecord(c) ==
    Has(c, "vectorized") => {"svg", "imageType", "stats"} \subseteq DOMAIN c.vectorized

AtomicVisibility ==
    /\ latestCapture # Null => CompleteRecord(latestCapture)
    /\ (lastReply.reader = "GET /latest" /\ lastReply.status = 200)
          => CompleteRecord(lastReply.body)
    /\ (lastReply.reader = "getLatestCapture" /\ lastReply.reply.success)
          => CompleteRecord(lastReply.reply.capture)

\* C5: the retained record changes only by a debugCapture handler replacing
\* it; no reader changes it.
PublishedRecordImmutable ==
    [][latestCapture' # latestCapture => Len(publishLog') = Len(publishLog) + 1]_vars

\* C6: while a record whose conversion succeeded is retained, a tool call
\* with includeSvg=false answers without the SVG and a tool call with
\* includeSvg=true answers with that record's SVG document.
VisualizationFlag ==
    (lastReply.reader = "mcp" /\ Len(publishLog) > 0 /\ LastPublished.vectorized) =>
        LET text == lastReply.result.text
            svgSections == {k \in 1..Len(text) : text[k].section = "SVG Approximation:"}
        IN  IF lastReply.includeSvg
            THEN \E k \in svgSections :
                    text[k].body =
                        VectorizeImage(Base64Decode(publisher.data.image.data)).svg
            ELSE svgSections = {}

\* C7: a success acknowledgment is sent only for a submission whose image
\* processing has resolved and whose record has been published.
AckAfterPublication ==
    \A k \in 1..Len(acks) :
        acks[k].success =>
            /\ handlers[acks[k].handler] = Returned
            /\ acks[k].handler \notin vectorizing
            /\ acks[k].handler \in PublishedHandlers

\* C7 witness: a submission whose image was converted has been acknowledged.
AckAfterPublicationWitness ==
    \E k \in 1..Len(acks), j \in 1..Len(publishLog) :
        /\ acks[k].success
        /\ acks[k].handler = publishLog[j].handler
        /\ publishLog[j].vectorized

\* C8: when the handler of a submission whose image failed returns, it has
\* published a record with the message's logs, errors and exception and no
\* vectorized field, and has acknowledged with success=true.
GracefulDegradation ==
    [][\A h \in 1..Len(handlers) :
          (/\ handlers[h].pc = "await"
           /\ ImageFails(handlers[h].data)
           /\ handlers'[h] = Returned)
          => /\ latestCapture' # Null
             /\ latestCapture'.console_logs = MessageLogs(handlers[h].data)
             /\ latestCapture'.console_errors = MessageErrors(handlers[h].data)
             /\ latestCapture'.unhandled_exception = MessageException(handlers[h].data)
             /\ ~Has(latestCapture', "vectorized")
             /\ handlers[h].callback =>
                  /\ acks' = Append(acks, [handler |-> h, success |-> TRUE])
                  /\ lastAck'.success = TRUE]_vars

\* C8 witness: the latest publisher is a submission with a callback whose
\* image failed.
GracefulDegradationWitness ==
    /\ Len(publishLog) > 0
    /\ ImageFails(publisher.data)
    /\ publisher.callback
    /\ latestCapture # Null
    /\ Len(acks) > 0

\* The most recent acknowledgment is the one of the latest publisher, and
\* that submission's image failed.
LastAckIsOfFailedImage ==
    /\ Len(acks) > 0
    /\ Len(publishLog) > 0
    /\ acks[Len(acks)].handler = LastPublished.handler
    /\ ImageFails(publisher.data)

ToolAlwaysAnswers ==
    lastReply.reader = "mcp" =>
        /\ Has(lastReply, "result")
        /\ ~Has(lastReply, "threw")

\* C12: a handler that throws before publishing (the payload is null)
\* leaves latestCapture as it was and, given a callback, acknowledges with
\* {success: false, error}.
UnrecoverableFailure ==
    [][(/\ Len(handlers') = Len(handlers) + 1
        /\ handlers'[Len(handlers')].pc = "caught")
       => /\ latestCapture' = latestCapture
          /\ publishLog' = publishLog
          /\ handlers'[Len(handlers')].callback =>
               /\ acks' = Append(acks, [handler |-> Len(handlers'),
                                        success |-> FALSE])
               /\ lastAck'.success = FALSE
               /\ DOMAIN lastAck' = {"success", "error"}]_vars

\* C12 witness: a null payload with a callback was handled while a capture
\* was retained.
UnrecoverableFailureWitness ==
    /\ latestCapture # Null
    /\ Len(acks) > 0
    /\ ~acks[Len(acks)].success
    /\ handlers[acks[Len(acks)].handler] = Caught(TRUE)
    /\ lastAck = FailureAck

Acknowledged(h) == \E k \in 1..Len(acks) : acks[k].handler = h /\ acks[k].success

\* C13: whatever conversions hang and whatever producers disconnect before
\* their acknowledgment, a new submission can always be taken, the handler
\* of every submission whose own conversion does not hang can resume at
\* once, and when it resumes it publishes and acknowledges.
NoStarvation ==
    /\ [](Len(handlers) < MaxSubmissions =>
             \A emit \in StarveEmits : ENABLED DebugCapture(emit[1], emit[2]))
    /\ [](\A h \in 1..Len(handlers) :
             (handlers[h].pc = "await" /\ h \notin hung)
                => ENABLED ResumeDebugCapture(h))
    /\ [][\A h \in 1..Len(handlers) :
             (handlers[h].pc = "await" /\ handlers'[h].pc # "await")
                => /\ latestCapture' # Null
                   /\ publishLog' = Append(publishLog,
                                           [handler |-> h,
                                            vectorized |-> Has(latestCapture',
                                                               "vectorized")])
                   /\ acks' = Append(acks, [handler |-> h, success |-> TRUE])]_vars

\* C13 witness: an earlier conversion hangs, the producer of another
\* submission has disconnected, and a later submission with an image has
\* been published and acknowledged.
NoStarvationWitness ==
    \E g, h \in 1..Len(handlers) :
        /\ g < h
        /\ g \in hung
        /\ gone # {}
        /\ h \in PublishedHandlers
        /\ Acknowledged(h)
        /\ Len(publishLog) > 0
        /\ LastPublished.handler = h
        /\ ImageProvided(publisher.data)

\* C14: a tool call adds exactly 1 to mcpRequestCount and, only when
\* includeSvg is false, exactly 1 to mcpRequestWithoutSvgCount; every other
\* step leaves both counters alone; the second never exceeds the first.
RequestCounters ==
    /\ [](0 <= mcpRequestWithoutSvgCount
           /\ mcpRequestWithoutSvgCount <= mcpRequestCount)
    /\ [][IF lastReply'.reader = "mcp"
          THEN /\ mcpRequestCount' = mcpRequestCount + 1
               /\ mcpRequestWithoutSvgCount' =
                    IF lastReply'.includeSvg
                    THEN mcpRequestWithoutSvgCount
                    ELSE mcpRequestWithoutSvgCount + 1
          ELSE /\ mcpRequestCount' = mcpRequestCount
               /\ mcpRequestWithoutSvgCount' = mcpRequestWithoutSvgCount]_vars

\* C14 witness: the tool has been called with and without the SVG, the
\* last time while no capture was retained.
RequestCountersWitness ==
    /\ lastReply.reader = "mcp"
    /\ latestCapture = Null
    /\ mcpRequestCount = 2
    /\ mcpRequestWithoutSvgCount = 1
    /\ Len(handlers) > 0

\* The invocations suspended at their await, each holding the capture it
\* built on arrival.
InFlight == {h \in 1..Len(handlers) : handlers[h].pc = "await"}

\* C15: the captures of distinct submissions have different ids: those of
\* the submissions in flight differ from one another and from the id of the
\* retained capture, which a submission that has returned built.
UniqueCaptureIds ==
    /\ \A g, h \in InFlight :
          g # h => handlers[g].capture.id # handlers[h].capture.id
    /\ latestCapture # Null =>
          \A h \in InFlight : handlers[h].capture.id # latestCapture.id

\* C16: a success acknowledgment is sent in the step in which its own
\* submission publishes; the record then retained is the one built from
\* that submission's message, the acknowledgment carries its id, and its
\* svg and stats are that record's when the conversion succeeded and null
\* otherwise.
AckDescribesRecord ==
    [][(/\ Len(acks') = Len(acks) + 1
        /\ acks'[Len(acks')].success)
       => LET h == acks'[Len(acks')].handler
              d == publisher'.data
          IN  /\ publishLog' = Append(publishLog,
                                      [handler |-> h,
                                       vectorized |-> Has(latestCapture',
                                                          "vectorized")])
              /\ latestCapture' # Null
              /\ latestCapture'.id = CaptureId(publisher'.arrivedAt)
              /\ latestCapture'.console_logs = MessageLogs(d)
              /\ latestCapture'.console_errors = MessageErrors(d)
              /\ latestCapture'.unhandled_exception = MessageException(d)
              /\ Has(latestCapture', "vectorized")
                    <=> (ImageProvided(d) /\ ~ImageFails(d))
              /\ lastAck'.success = TRUE
              /\ lastAck'.id = latestCapture'.id
              /\ IF Has(latestCapture', "vectorized")
                 THEN /\ lastAck'.stats = latestCapture'.vectorized.stats
                      /\ lastAck'.svg = latestCapture'.vectorized.svg
                 ELSE /\ lastAck'.stats = Null
                      /\ lastAck'.svg = Null]_vars

\* C16 witness: a submission whose conversion succeeded is acknowledged
\* after another capture had been retained, and is the retained one.
AckDescribesRecordWitness ==
    /\ Len(publishLog) = 2
    /\ LastPublished.vectorized
    /\ Len(acks) > 0
    /\ acks[Len(acks)] = [handler |-> LastPublished.handler, success |-> TRUE]
    /\ lastAck.id = latestCapture.id
    /\ Has(latestCapture, "vectorized")
    /\ Has(latestCapture.vectorized, "svg")
    /\ lastAck.svg = latestCapture.vectorized.svg

\* C17: at most one debugCapture of the current connection is unacknowledged
\* at any time.
ClientFlowControl == client.unacked <= 1

CaptureLoopStarts ==
    (/\ client.isCapturing
     /\ client.isConnected
     /\ client.domCanvas = "ok")
        => \/ client.emittedSince
           \/ client.captureTimeout = "pending"
           \/ client.orphanTimers > 0
           \/ client.unacked > 0

\* Entries are in the order they were logged.
InLogOrder(buffer) ==
    \A j, k \in 1..Len(buffer) : j < k => buffer[j].timestamp <= buffer[k].timestamp

\* C20: console_logs holds at most config.maxLogs entries and console_errors
\* at most config.maxErrors, in the order they were logged.
LogBuffersBounded ==
    /\ Len(client.console_logs) <= client.config.maxLogs
    /\ Len(client.console_errors) <= client.config.maxErrors
    /\ InLogOrder(client.console_logs)
    /\ InLogOrder(client.console_errors)

\* C21: when optimize() throws inside vectorizeImage, or optimization is
\* disabled by options.optimize === false, the call returns the document of
\* the engine unchanged, with finalSize equal to originalSize, sizeReduction
\* 0 and optimizeTime 0.
OptimizationSkipped ==
    \/ Has(call.options, "optimize") /\ call.options.optimize = FALSE
    \/ call.optimizer.throws

OptimizationFailureNonFatal ==
    (call.fn = "vectorizeImage" /\ HasResult /\ OptimizationSkipped)
        => /\ call.result.svg = call.svg
           /\ call.result.stats.finalSize = call.result.stats.originalSize
           /\ call.result.stats.sizeReduction = Number(0)
           /\ call.result.stats.optimizeTime = 0

\* C22: for every result of vectorizeImage, originalSize is the length of
\* the engine's document, finalSize the length of the returned document, and
\* sizeReduction is a number equal to 100 * (1 - finalSize / originalSize),
\* for the empty document too.
StatsRelation ==
    (call.fn = "vectorizeImage" /\ HasResult)
        => LET stats == call.result.stats
           IN  /\ stats.originalSize = Len(call.svg)
               /\ stats.finalSize = Len(call.result.svg)
               /\ IsFinite(stats.sizeReduction)
               /\ stats.sizeReduction =
                      LowestTerms(
                          Times(Minus(Number(1),
                                      Divide(Number(stats.finalSize),
                                             Number(stats.originalSize))),
                                Number(100)))

\* C24: roundHexComponent maps every channel value 0..255 to the nearest of
\* 0, 51, 102, 153, 204, 255, written 00, 33, 66, 99, CC, FF; applied to its
\* own output it returns that output; every colour rewritten by
\* roundHexColors has each channel made of two equal digits.
Levels == {0, 51, 102, 153, 204, 255}

ColourQuantization ==
    /\ (call.fn = "roundHexComponent" /\ HasResult)
        => LET dec == ParseInt16(call.hexPair)
               out == ParseInt16(call.result)
           IN  /\ call.result \in {<<"0", "0">>, <<"3", "3">>, <<"6", "6">>,
                                   <<"9", "9">>, <<"C", "C">>, <<"F", "F">>}
               /\ out \in Levels
               /\ \A level \in Levels : Abs(dec - out) <= Abs(dec - level)
               /\ RoundHexComponent(call.result) = call.result
    /\ (call.fn = "roundHexColors" /\ HasResult)
        => \A k \in 1..Len(call.result) :
              Has(call.svg[k], "fill")
                => \A i \in 1..3 :
                      call.result[k].fill[i][1] = call.result[k].fill[i][2]

ColourQuantizationWitness ==
    \/ /\ call.fn = "roundHexComponent"
       /\ HasResult
       /\ call.hexPair = <<"4", "c">>
       /\ call.result = <<"3", "3">>
    \/ /\ call.fn = "roundHexColors"
       /\ HasResult
       /\ Len(call.svg) = 1
       /\ Has(call.svg[1], "fill")
       /\ call.svg[1].fill = << <<"1", "9">>, <<"4", "c">>, <<"e", "6">> >>
       /\ call.result[1].fill = << <<"0", "0">>, <<"3", "3">>, <<"F", "F">> >>


\* C23: the engine is invoked for a submission only in the step in which the
\* submission arrives, and exactly when it carries an image whose data URL
\* matches the pattern; a record published for a submission without such an
\* image is published without the engine having worked for it.
EngineInvokedWhenNeeded ==
    [][LET arrived == Len(handlers') = Len(handlers) + 1
           h == Len(handlers')
           published == Len(publishLog') = Len(publishLog) + 1
       IN  /\ (vectorizing' \ vectorizing) \subseteq (IF arrived THEN {h} ELSE {})
           /\ arrived
                => (h \in vectorizing'
                      <=> /\ handlers'[h].pc = "await"
                          /\ ImageProvided(handlers'[h].data)
                          /\ Matches(handlers'[h].data.image))
           /\ (published /\ ~(ImageProvided(publisher'.data)
                                /\ Matches(publisher'.data.image)))
                => LastPublished'.handler \notin vectorizing \cup vectorizing'
      ]_vars

EngineInvokedWhenNeededWitness ==
    /\ vectorizing # {}
    /\ publisher # Null
    /\ ImageProvided(publisher.data)
    /\ ~Matches(publisher.data.image)

\* C25: the timestamp of the published record is the timestamp of its
\* message whenever the message has one (0 included), and the time of
\* arrival at the server otherwise.
RecordTimestamp ==
    latestCapture # Null
        => latestCapture.timestamp =
              IF Has(publisher.data, "timestamp") THEN publisher.data.timestamp
              ELSE publisher.arrivedAt


\* C27: an invocation of the debugCapture handler that was given a callback
\* invokes it exactly once, in the step in which it returns, with
\* success true or with success false; no other step invokes a callback.
ReturnsIn(h) ==
    /\ h \in 1..Len(handlers')
    /\ handlers'[h].pc # "await"
    /\ h > Len(handlers) \/ handlers[h].pc = "await"

CallbackOfReturning(h) ==
    IF h <= Len(handlers) THEN handlers[h].callback
    ELSE IF handlers'[h].pc = "caught" THEN handlers'[h].callback
    ELSE publisher'.callback

ExactlyOneAcknowledgment ==
    /\ [](\A i, j \in 1..Len(acks) : acks[i].handler = acks[j].handler => i = j)
    /\ [][/\ \A h \in 1..MaxSubmissions :
                (ReturnsIn(h) /\ CallbackOfReturning(h))
                    => \E s \in BOOLEAN :
                          acks' = Append(acks, [handler |-> h, success |-> s])
          /\ acks' # acks
                => \E h \in 1..MaxSubmissions :
                      ReturnsIn(h) /\ CallbackOfReturning(h)
         ]_vars

ExactlyOneAcknowledgmentWitness ==
    /\ Len(acks) = 2
    /\ acks[1].success # acks[2].success
    /\ \A h \in 1..Len(handlers) : handlers[h].pc # "await"

\* C29: once latestCapture is not null it is never null again, whatever
\* the step: a submission (failed and malformed ones included), a query or
\* a disconnect.
SlotNeverEmptied ==
    [][latestCapture # Null => latestCapture' # Null]_vars

SlotNeverEmptiedWitness ==
    /\ latestCapture # Null
    /\ \E h \in 1..Len(handlers) :
          handlers[h].pc = "caught" /\ h > LastPublished.handler

\* C30: GET /latest and getLatestCapture leave latestCapture and the two
\* request counters as they are, and answer with latestCapture itself; the
\* socket reply also carries vectorized.svg and vectorized.stats of the
\* record, or null for both when the record has no vectorized property.
PlainRetrievalReadOnly ==
    [][/\ lastReply'.reader \in {"GET /latest", "getLatestCapture"}
            => UNCHANGED <<latestCapture, mcpRequestCount,
                           mcpRequestWithoutSvgCount>>
       /\ (lastReply'.reader = "GET /latest" /\ latestCapture # Null)
            => /\ lastReply'.status = 200
               /\ lastReply'.body = latestCapture
       /\ (lastReply'.reader = "getLatestCapture" /\ latestCapture # Null)
            => LET reply == lastReply'.reply
               IN  /\ reply.success
                   /\ reply.capture = latestCapture
                   /\ IF Has(latestCapture, "vectorized")
                      THEN /\ IF Has(latestCapture.vectorized, "svg")
                              THEN reply.svg = latestCapture.vectorized.svg
                              ELSE reply.svg = [undefined |-> TRUE]
                           /\ reply.stats = latestCapture.vectorized.stats
                      ELSE reply.svg = Null /\ reply.stats = Null
      ]_vars

PlainRetrievalReadOnlyWitness ==
    /\ lastReply.reader = "getLatestCapture"
    /\ lastReply.reply.success
    /\ Has(latestCapture, "vectorized")
    /\ ~Has(latestCapture.vectorized, "svg")
    /\ mcpRequestWithoutSvgCount = 1


\* C26: unhandled_exception of the client is the exception recorded last
\* by the window's error and unhandledrejection listeners, it is never set
\* back to null, and every capture message emitted carries it.
ExceptionSlotSticky ==
    /\ [](client.unhandled_exception = client.lastException)
    /\ [](client.emitted => client.sent.unhandled_exception = client.lastException)
    /\ [][client.unhandled_exception # Null
            => client'.unhandled_exception # Null]_vars

\* C28: a disconnect stops the capture loop and clears the timer, no
\* debugCapture is emitted while the client is disconnected, and a
\* reconnect under autoCapture, in a page with a readable canvas, restarts
\* the loop with an emit, whether or not the acknowledgments of the lost
\* connection have arrived.
DisconnectAndReconnect ==
    /\ [](client.emitted => client.isConnected)
    /\ [][/\ (client.isConnected /\ ~client'.isConnected)
               => /\ ~client'.isCapturing
                  /\ client'.captureTimeout = "null"
          /\ (/\ client.reconnecting
              /\ client'.isConnected
              /\ client'.config.autoCapture
              /\ client'.domCanvas = "ok")
               => client'.isCapturing /\ client'.emitted
         ]_vars


\* C31: the connection handler emits captureStatus to the connecting socket
\* if and only if latestCapture is not null at that moment, once, with
\* hasCapture true and the timestamp of that record.
ConnectionStatusNotice ==
    [][lastReply'.reader = "connection"
        => /\ lastReply'.emits # <<>> <=> latestCapture # Null
           /\ latestCapture # Null
                => lastReply'.emits =
                      <<[event |-> "captureStatus",
                         payload |-> [hasCapture |-> TRUE,
                                      timestamp |-> latestCapture.timestamp]]>>
      ]_vars

ConnectionStatusNoticeWitness ==
    /\ lastReply.reader = "connection"
    /\ Len(lastReply.emits) = 1
    /\ lastReply.emits[1].payload.timestamp = latestCapture.timestamp
    /\ Len(publishLog) = 2


\* C32: initialize() on an initialized client changes nothing,
\* initializeVectorizer(cfg) on an initialized client changes only the
\* config, which becomes the merge of the old one and cfg, and a client
\* instance never creates a second socket.
InitializationIdempotent ==
    /\ [](client.sockets <= 1)
    /\ [][/\ (client.initialized /\ CallInitialize) => client' = Before
          /\ \A cfg \in UserConfigs :
                (client.initialized /\ CallInitializeVectorizer(cfg))
                    => client' = [Before EXCEPT !.config = Merge(@, cfg)]
         ]_vars


====
